---- MODULE Spec2Model ----
(***************************************************************************)
(* Model of docs/gen_ref_pages.py: the walk over the SDK source tree that  *)
(* writes one reference page per retained module and the literate-nav      *)
(* manifest SUMMARY.md.                                                    *)
(*                                                                         *)
(* Strings are sequences of one-character strings, paths are sequences of  *)
(* strings (pathlib parts), so that startswith, with_suffix, with_name,    *)
(* as_posix, replace and title are computed character by character.        *)
(***************************************************************************)
EXTENDS Integers, Sequences, FiniteSets, TLC

VARIABLES
    tree,        \* the *.py files under src, as paths relative to src
    overrides,   \* MANUAL_OVERRIDES, a set of posix strings
    todo,        \* the part of sorted(src.rglob("*.py")) not yet visited
    nav,         \* mkdocs_gen_files.Nav(): navigation key -> document path
    docs,        \* the virtual files written through mkdocs_gen_files.open
    editPaths,   \* mkdocs_gen_files.set_edit_path: document -> source path
    events,      \* the writes of the run, in the order they happened
    summary,     \* the entries written to SUMMARY.md
    pc,          \* "walk" | "done" for the script, "title" for a title call
    targs,       \* arguments of a get_module_title call
    tresult      \* its result, NoTitle before the call returns

vars == <<tree, overrides, todo, nav, docs, editPaths, events, summary, pc,
          targs, tresult>>

-----------------------------------------------------------------------------
(* Bounds *)

\* Largest number of *.py files in a source tree.
MaxFiles == 2

\* Longest navigation key handed to get_module_title on its own.
MaxKeyLen == 2

-----------------------------------------------------------------------------
(* Characters *)

Lowers == <<"a", "b", "c", "d", "e", "f", "g", "h", "i", "j", "k", "l", "m",
            "n", "o", "p", "q", "r", "s", "t", "u", "v", "w", "x", "y", "z">>

Uppers == <<"A", "B", "C", "D", "E", "F", "G", "H", "I", "J", "K", "L", "M",
            "N", "O", "P", "Q", "R", "S", "T", "U", "V", "W", "X", "Y", "Z">>

\* The characters of the model in code point order.
AsciiOrder == <<" ", "-", ".", "/", "0", "1", "2", "3", "4", "5", "6", "7",
                "8", "9">> \o Uppers \o <<"_">> \o Lowers

IndexOf(c, s) == CHOOSE i \in 1..Len(s) : s[i] = c

Ord(c) == IndexOf(c, AsciiOrder)

IsLower(c) == \E i \in 1..Len(Lowers) : Lowers[i] = c

IsUpper(c) == \E i \in 1..Len(Uppers) : Uppers[i] = c

IsCased(c) == IsLower(c) \/ IsUpper(c)

ToUpper(c) == IF IsLower(c) THEN Uppers[IndexOf(c, Lowers)] ELSE c

ToLower(c) == IF IsUpper(c) THEN Lowers[IndexOf(c, Uppers)] ELSE c

-----------------------------------------------------------------------------
(* Strings *)

\* s.startswith(prefix)
StartsWith(s, prefix) ==
    /\ Len(s) >= Len(prefix)
    /\ SubSeq(s, 1, Len(prefix)) = prefix

\* s.replace(old, new) for one-character old and new
Replace(s, old, new) ==
    [i \in 1..Len(s) |-> IF s[i] = old THEN new ELSE s[i]]

\* s.title(): a cased character is upper-cased when the character before it
\* is not cased and lower-cased when it is; other characters are kept.
Title(s) ==
    [i \in 1..Len(s) |->
        IF IsCased(s[i])
        THEN IF i > 1 /\ IsCased(s[i - 1]) THEN ToLower(s[i]) ELSE ToUpper(s[i])
        ELSE s[i]]

\* s * n
RECURSIVE Repeat(_, _)
Repeat(s, n) == IF n <= 0 THEN <<>> ELSE s \o Repeat(s, n - 1)

\* sep.join(segs)
RECURSIVE Join(_, _)
Join(segs, sep) ==
    IF segs = <<>> THEN <<>>
    ELSE IF Len(segs) = 1 THEN segs[1]
    ELSE segs[1] \o sep \o Join(Tail(segs), sep)

\* str < str: lexicographic by code point
StrLess(s, t) ==
    \E i \in 1..Len(t) :
        /\ i <= Len(s) + 1
        /\ SubSeq(s, 1, i - 1) = SubSeq(t, 1, i - 1)
        /\ \/ i = Len(s) + 1
           \/ Ord(s[i]) < Ord(t[i])

-----------------------------------------------------------------------------
(* Names *)

INIT == <<"_", "_", "i", "n", "i", "t", "_", "_">>
INDEX == <<"i", "n", "d", "e", "x">>
INDEX_MD == <<"i", "n", "d", "e", "x", ".", "m", "d">>
PY == <<".", "p", "y">>
MD == <<".", "m", "d">>
SDK_REFERENCE == <<"s", "d", "k", "-", "r", "e", "f", "e", "r", "e", "n", "c", "e">>
PYTHON == <<"p", "y", "t", "h", "o", "n">>
PYTHON_SDK == <<"p", "y", "t", "h", "o", "n", "-", "s", "d", "k">>
SRC == <<"s", "r", "c">>
TESTS == <<"t", "e", "s", "t", "s">>
TEST == <<"t", "e", "s", "t">>
SCRIPTS == <<"s", "c", "r", "i", "p", "t", "s">>
MIGRATIONS == <<"m", "i", "g", "r", "a", "t", "i", "o", "n", "s">>

\* PACKAGE_NAME
PACKAGE_NAME == <<"g", "r", "i", "d", "d", "y">>

\* Path("sdk-reference/python")
OutputRoot == <<SDK_REFERENCE, PYTHON>>

\* title_map of get_module_title
title_map ==
    (<<"a", "u", "t", "h">> :>
        <<"A", "u", "t", "h", "e", "n", "t", "i", "c", "a", "t", "i", "o", "n">>)
    @@ (<<"a", "p", "i">> :>
        <<"A", "P", "I", " ", "C", "l", "i", "e", "n", "t">>)
    @@ (<<"c", "l", "i">> :>
        <<"C", "o", "m", "m", "a", "n", "d", " ", "L", "i", "n", "e", " ",
          "I", "n", "t", "e", "r", "f", "a", "c", "e">>)
    @@ (<<"u", "t", "i", "l", "s">> :>
        <<"U", "t", "i", "l", "i", "t", "i", "e", "s">>)
    @@ (<<"c", "o", "n", "f", "i", "g">> :>
        <<"C", "o", "n", "f", "i", "g", "u", "r", "a", "t", "i", "o", "n">>)
    @@ (<<"e", "x", "c">> :>
        <<"E", "x", "c", "e", "p", "t", "i", "o", "n", "s">>)
    @@ (<<"e", "x", "c", "e", "p", "t", "i", "o", "n", "s">> :>
        <<"E", "x", "c", "e", "p", "t", "i", "o", "n", "s">>)
    @@ (<<"t", "y", "p", "e", "s">> :>
        <<"T", "y", "p", "e", " ", "D", "e", "f", "i", "n", "i", "t", "i", "o", "n", "s">>)
    @@ (<<"m", "o", "d", "e", "l", "s">> :>
        <<"D", "a", "t", "a", " ", "M", "o", "d", "e", "l", "s">>)
    @@ (<<"e", "n", "d", "p", "o", "i", "n", "t", "s">> :>
        <<"A", "P", "I", " ", "E", "n", "d", "p", "o", "i", "n", "t", "s">>)
    @@ (<<"c", "l", "i", "e", "n", "t">> :>
        <<"C", "l", "i", "e", "n", "t">>)

-----------------------------------------------------------------------------
(* pathlib *)

Last(s) == s[Len(s)]

Front(s) == SubSeq(s, 1, Len(s) - 1)

\* Position of the last "." of a file name, 0 when it has none.
LastDot(name) ==
    IF \E i \in 1..Len(name) : name[i] = "."
    THEN CHOOSE i \in 1..Len(name) :
            /\ name[i] = "."
            /\ \A j \in (i + 1)..Len(name) : name[j] # "."
    ELSE 0

\* PurePath.stem: the name without its suffix; a leading or a trailing dot
\* starts no suffix.
Stem(name) ==
    IF LastDot(name) > 1 /\ LastDot(name) < Len(name)
    THEN SubSeq(name, 1, LastDot(name) - 1)
    ELSE name

\* path.with_suffix(suffix)
WithSuffix(path, suffix) ==
    [path EXCEPT ![Len(path)] = Stem(path[Len(path)]) \o suffix]

\* path.with_name(name)
WithName(path, name) == [path EXCEPT ![Len(path)] = name]

\* path.as_posix()
AsPosix(path) == Join(path, <<"/">>)

\* path < path: pathlib compares the parts, part by part
PathLess(p, q) ==
    \E i \in 1..Len(q) :
        /\ i <= Len(p) + 1
        /\ SubSeq(p, 1, i - 1) = SubSeq(q, 1, i - 1)
        /\ \/ i = Len(p) + 1
           \/ StrLess(p[i], q[i])

\* sorted(paths)
RECURSIVE Sorted(_)
Sorted(paths) ==
    IF paths = {} THEN <<>>
    ELSE LET first == CHOOSE p \in paths :
                        \A q \in paths \ {p} : PathLess(p, q)
         IN  <<first>> \o Sorted(paths \ {first})

-----------------------------------------------------------------------------
(* The functions of gen_ref_pages.py *)

Range(s) == {s[i] : i \in 1..Len(s)}

\* should_skip_module testing only the module's own name for the private
\* marker, not the packages above it
should_skip_module_own_name(parts) ==
    \/ StartsWith(parts[Len(parts)], <<"_">>) /\ parts[Len(parts)] # INIT
    \/ TESTS \in Range(parts) \/ TEST \in Range(parts)
    \/ SCRIPTS \in Range(parts) \/ MIGRATIONS \in Range(parts)

\* should_skip_module(parts)
should_skip_module(parts) ==
    \/ \E i \in 1..Len(parts) :
          StartsWith(parts[i], <<"_">>) /\ parts[i] # INIT
    \/ TESTS \in Range(parts) \/ TEST \in Range(parts)
    \/ SCRIPTS \in Range(parts) \/ MIGRATIONS \in Range(parts)

\* get_module_title whose fallback forgets .title()
get_module_title_untitled(parts, is_package) ==
    IF parts = <<>> THEN Title(PACKAGE_NAME)
    ELSE IF parts[Len(parts)] \in DOMAIN title_map
         THEN title_map[parts[Len(parts)]]
         ELSE Replace(parts[Len(parts)], "_", " ")

\* get_module_title(parts, is_package)
get_module_title(parts, is_package) ==
    IF parts = <<>> THEN Title(PACKAGE_NAME)
    ELSE LET name == Last(parts)
         IN  IF name \in DOMAIN title_map THEN title_map[name]
             ELSE Title(Replace(name, "_", " "))

-----------------------------------------------------------------------------
(* The body of the walk loop, for one path of sorted(src.rglob("*.py")) *)

\* parts = tuple(module_path.parts), before the __init__ handling
ModuleParts(path) == WithSuffix(path, <<>>)

\* is_package
IsPackage(path) == Last(ModuleParts(path)) = INIT

\* parts without parts = parts[:-1]
PartsKeepingInit(path) == ModuleParts(path)

\* parts, after the __init__ handling
Parts(path) ==
    IF IsPackage(path) THEN Front(ModuleParts(path)) ELSE ModuleParts(path)

\* doc_path, after the __init__ handling
DocPath(path) ==
    IF IsPackage(path)
    THEN IF Parts(path) = <<>> THEN <<INDEX_MD>>
         ELSE WithName(WithSuffix(path, MD), INDEX_MD)
    ELSE WithSuffix(path, MD)

\* full_doc_path, after the __init__ handling
FullDocPath(path) ==
    IF IsPackage(path)
    THEN IF Parts(path) = <<>> THEN OutputRoot \o <<INDEX_MD>>
         ELSE WithName(OutputRoot \o WithSuffix(path, MD), INDEX_MD)
    ELSE OutputRoot \o WithSuffix(path, MD)

\* relative_doc = full_doc_path.relative_to("sdk-reference/python").as_posix()
RelativeDoc(path) ==
    AsPosix(SubSeq(FullDocPath(path), Len(OutputRoot) + 1, Len(FullDocPath(path))))

\* The override test made on full_doc_path instead of relative_doc
IsManualOverrideFullPath(path) == AsPosix(FullDocPath(path)) \in overrides

\* relative_doc in MANUAL_OVERRIDES
IsManualOverride(path) == RelativeDoc(path) \in overrides

\* nav[parts] without the branch for empty parts
NavKeyWithoutSentinel(path) == Parts(path)

\* The key of the navigation entry: parts, or ("index",) for the root package
NavKey(path) == IF Parts(path) # <<>> THEN Parts(path) ELSE <<INDEX>>

\* identifier
Identifier(path) ==
    IF Parts(path) # <<>> THEN Join(Parts(path), <<".">>) ELSE PACKAGE_NAME

\* len(parts) > 0
HasBreadcrumbFromOne(parts) == Len(parts) > 0

\* len(parts) > 1: the document gets a breadcrumb line
HasBreadcrumb(parts) == Len(parts) > 1

\* rel_path of the i-th ancestor link, i counted from 1 (enumerate counts
\* from 0, so the code's exponent len(parts) - i - 2 is Len(parts) - i - 1)
RelPath(parts, i) ==
    Repeat(<<".", ".", "/">>, Len(parts) - i - 1) \o INDEX_MD

\* breadcrumb_parts: a link per ancestor segment, then the bolded last one;
\* empty when no breadcrumb line is written
Breadcrumb(parts) ==
    IF HasBreadcrumb(parts)
    THEN [i \in 1..Len(parts) |->
            IF i < Len(parts)
            THEN [kind |-> "link", text |-> parts[i], href |-> RelPath(parts, i)]
            ELSE [kind |-> "bold", text |-> parts[i], href |-> <<>>]]
    ELSE <<>>

\* What is written to the document: the title line, the breadcrumb line and
\* the mkdocstrings directives (two blocks for a package, one for a module)
Content(path) ==
    [title      |-> get_module_title(Parts(path), IsPackage(path)),
     breadcrumb |-> Breadcrumb(Parts(path)),
     identifier |-> Identifier(path),
     directives |-> IF IsPackage(path) THEN 2 ELSE 1]

\* path.relative_to(src.parent.parent)
EditPath(path) == <<PYTHON_SDK, SRC>> \o path

\* m[k] = v
Put(m, k, v) == (k :> v) @@ m

-----------------------------------------------------------------------------
(* The inputs *)

A == <<"a">>
B == <<"b">>
PRIV == <<"_", "p">>

\* Directories of the source tree, relative to src
Dirs == {<<>>, <<A>>, <<A, B>>, <<TESTS>>, <<PRIV>>}

\* Names of source files, without the extension
Stems == {A, INIT, INDEX, PRIV, TESTS, TEST, SCRIPTS, MIGRATIONS}

\* The files src.rglob("*.py") can find
Files == {d \o <<s \o PY>> : d \in Dirs, s \in Stems}

\* Source trees of at most MaxFiles files
Trees == {Range(f) : f \in [1..MaxFiles -> Files]} \cup {{}}

\* Values of MANUAL_OVERRIDES: empty as shipped, or with a package overview
OverrideConfigs ==
    {{}, {<<"a", "/", "i", "n", "d", "e", "x", ".", "m", "d">>}}

NoCall == [parts |-> <<>>, is_package |-> FALSE]

NoTitle == [returned |-> FALSE, value |-> <<>>]

NoSummary == [written |-> FALSE, entries |-> <<>>]

-----------------------------------------------------------------------------
(* The script *)

Init ==
    /\ tree \in Trees
    /\ overrides \in OverrideConfigs
    /\ todo = Sorted(tree)
    /\ nav = <<>>
    /\ docs = <<>>
    /\ editPaths = <<>>
    /\ events = <<>>
    /\ summary = NoSummary
    /\ pc = "walk"
    /\ targs = NoCall
    /\ tresult = NoTitle

\* An iteration that ends at the first continue: should_skip_module(parts)
SkipModule ==
    /\ pc = "walk"
    /\ todo # <<>>
    /\ should_skip_module(ModuleParts(Head(todo)))
    /\ todo' = Tail(todo)
    /\ UNCHANGED <<tree, overrides, nav, docs, editPaths, events, summary, pc,
                   targs, tresult>>

\* An iteration that ends at the second continue: a manual override
SkipOverride ==
    /\ pc = "walk"
    /\ todo # <<>>
    /\ ~should_skip_module(ModuleParts(Head(todo)))
    /\ IsManualOverride(Head(todo))
    /\ todo' = Tail(todo)
    /\ UNCHANGED <<tree, overrides, nav, docs, editPaths, events, summary, pc,
                   targs, tresult>>

\* A full iteration: navigation entry, document, edit path
GenerateModule ==
    /\ pc = "walk"
    /\ todo # <<>>
    /\ LET path == Head(todo)
       IN  /\ ~should_skip_module(ModuleParts(path))
           /\ ~IsManualOverride(path)
           /\ nav' = Put(nav, NavKey(path), AsPosix(DocPath(path)))
           /\ docs' = Put(docs, FullDocPath(path), Content(path))
           /\ editPaths' = Put(editPaths, FullDocPath(path), EditPath(path))
           /\ events' = Append(events,
                  [kind |-> "document", src |-> path,
                   doc |-> FullDocPath(path), key |-> NavKey(path),
                   value |-> AsPosix(DocPath(path)),
                   content |-> Content(path)])
    /\ todo' = Tail(todo)
    /\ UNCHANGED <<tree, overrides, summary, pc, targs, tresult>>

\* The SUMMARY.md block indented into the loop body: written at every pass
WriteSummaryInLoop ==
    /\ pc = "walk"
    /\ summary' = [written |-> TRUE, entries |-> nav]
    /\ events' = Append(events,
           [kind |-> "summary", src |-> <<>>,
            doc |-> OutputRoot \o <<<<"S", "U", "M", "M", "A", "R", "Y", ".", "m", "d">>>>,
            key |-> <<>>, value |-> <<>>, content |-> <<>>])
    /\ pc' = IF todo = <<>> THEN "done" ELSE "walk"
    /\ UNCHANGED <<tree, overrides, todo, nav, docs, editPaths, targs, tresult>>

\* After the loop: SUMMARY.md is written from nav.build_literate_nav()
WriteSummary ==
    /\ pc = "walk"
    /\ todo = <<>>
    /\ summary' = [written |-> TRUE, entries |-> nav]
    /\ events' = Append(events,
           [kind |-> "summary", src |-> <<>>,
            doc |-> OutputRoot \o <<<<"S", "U", "M", "M", "A", "R", "Y", ".", "m", "d">>>>,
            key |-> <<>>, value |-> <<>>, content |-> <<>>])
    /\ pc' = "done"
    /\ UNCHANGED <<tree, overrides, todo, nav, docs, editPaths, targs, tresult>>

Next == SkipModule \/ SkipOverride \/ GenerateModule \/ WriteSummary

Spec == Init /\ [][Next]_vars

-----------------------------------------------------------------------------
(* get_module_title called on its own *)

\* Last segments of a navigation key: the keys of title_map and names that
\* take the fallback (underscores, a digit, an upper-case letter, dunders)
TitleNames ==
    DOMAIN title_map \cup
    {<<"m", "y", "_", "m", "o", "d">>, <<"v", "1", "_", "a", "p", "i">>,
     <<"n", "f", "l">>, <<"x", "_">>, <<"N", "F", "L", "_", "s", "d", "k">>,
     INIT, INDEX}

\* Navigation keys of at most MaxKeyLen segments
TitleKeys == UNION {[1..n -> TitleNames] : n \in 0..MaxKeyLen}

TitleInit ==
    /\ tree = {}
    /\ overrides = {}
    /\ todo = <<>>
    /\ nav = <<>>
    /\ docs = <<>>
    /\ editPaths = <<>>
    /\ events = <<>>
    /\ summary = NoSummary
    /\ pc = "title"
    /\ targs \in [parts : TitleKeys, is_package : BOOLEAN]
    /\ tresult = NoTitle

\* title = get_module_title(parts, is_package)
CallTitle ==
    /\ pc = "title"
    /\ ~tresult.returned
    /\ tresult' = [returned |-> TRUE,
                   value |-> get_module_title(targs.parts, targs.is_package)]
    /\ UNCHANGED <<tree, overrides, todo, nav, docs, editPaths, events,
                   summary, pc, targs>>

TitleNext == CallTitle

SpecTitle == TitleInit /\ [][TitleNext]_vars

-----------------------------------------------------------------------------
(* Vocabulary of the properties, read off the source paths and the written *)
(* output rather than off the operators of the loop body                   *)

\* The module path of a source file: the path with the ".py" taken off
SourceModulePath(path) ==
    [path EXCEPT ![Len(path)] = SubSeq(@, 1, Len(@) - Len(PY))]

\* A segment that excludes a module: private and not "__init__", or reserved
ExcludingSegment(seg) ==
    \/ seg # <<>> /\ seg[1] = "_" /\ seg # INIT
    \/ seg \in {TESTS, SCRIPTS, MIGRATIONS}

Excluded(path) ==
    \E i \in 1..Len(path) : ExcludingSegment(SourceModulePath(path)[i])

\* A document path below the output root, as module-path-like segments
DocSegments(doc) ==
    LET rel == SubSeq(doc, Len(OutputRoot) + 1, Len(doc))
    IN  [rel EXCEPT ![Len(rel)] = SubSeq(@, 1, Len(@) - Len(MD))]

\* The positions of the document writes in the run
DocumentWrites == {i \in 1..Len(events) : events[i].kind = "document"}

SummaryWrites == {i \in 1..Len(events) : events[i].kind = "summary"}

IsEntryPoint(path) == Last(path) = INIT \o PY

\* The modules the run keeps: not skipped and not manually overridden
Retained == {f \in tree : ~should_skip_module(ModuleParts(f))
                          /\ ~IsManualOverride(f)}

\* s.split("/")
RECURSIVE SplitPosix(_)
SplitPosix(s) ==
    IF \E i \in 1..Len(s) : s[i] = "/"
    THEN LET cut == CHOOSE i \in 1..Len(s) :
                       s[i] = "/" /\ \A j \in 1..(i - 1) : s[j] # "/"
         IN  <<SubSeq(s, 1, cut - 1)>> \o SplitPosix(SubSeq(s, cut + 1, Len(s)))
    ELSE <<s>>

\* The document a relative link leads to from the directory dir
RECURSIVE Follow(_, _)
Follow(dir, segs) ==
    IF segs = <<>> THEN dir
    ELSE IF Head(segs) = <<".", ".">> THEN Follow(Front(dir), Tail(segs))
    ELSE Follow(Append(dir, Head(segs)), Tail(segs))

LinkTarget(doc, href) == Follow(Front(doc), SplitPosix(href))

-----------------------------------------------------------------------------
(* Properties *)

\* C1: a source file with a private segment other than "__init__", or with a
\* segment tests, scripts or migrations, gets no document, no navigation
\* entry and no edit path, whatever else is in the tree.
C1_ExcludedNeverGenerated ==
    /\ \A f \in tree : Excluded(f) =>
          \A i \in 1..Len(events) : events[i].src # f
    /\ \A d \in DOMAIN docs :
          \A i \in 1..Len(DocSegments(d)) : ~ExcludingSegment(DocSegments(d)[i])
    /\ \A k \in DOMAIN nav :
          \A i \in 1..Len(k) : ~ExcludingSegment(k[i])
    /\ \A d \in DOMAIN editPaths : ~Excluded(SubSeq(editPaths[d], 3, Len(editPaths[d])))

\* C1 witness: a finished run over a tree with an excluded file below a
\* private or reserved directory next to a file that was generated.
C1_Witness ==
    /\ pc = "done"
    /\ \E f \in tree : Excluded(f) /\ Len(f) > 1 /\ ~ExcludingSegment(SourceModulePath(f)[Len(f)])
    /\ DocumentWrites # {}

\* C2 (as stated): a retained __init__ file is written to index.md in the
\* directory of the remaining segments and registered under the module path
\* without the trailing "__init__".
C2_Original ==
    \A i \in DocumentWrites :
        IsEntryPoint(events[i].src) =>
            /\ events[i].doc = OutputRoot \o Front(events[i].src) \o <<INDEX_MD>>
            /\ events[i].key = Front(events[i].src)

\* C2 (amended): a retained __init__ file is written to index.md in the
\* directory of the remaining segments; it is registered under the module
\* path without the trailing "__init__" when that is not empty, and under
\* ("index",) when it is (the root package).
C2_EntryPointIndex ==
    \A i \in DocumentWrites :
        IsEntryPoint(events[i].src) =>
            /\ events[i].doc = OutputRoot \o Front(events[i].src) \o <<INDEX_MD>>
            /\ events[i].key = IF Len(events[i].src) > 1
                               THEN Front(events[i].src) ELSE <<INDEX>>

\* C2 witness: a finished run that generated a nested package's __init__.
C2_Witness ==
    /\ pc = "done"
    /\ \E i \in DocumentWrites :
          IsEntryPoint(events[i].src) /\ Len(events[i].src) > 2

\* C3 (as stated): the root __init__ is written to
\* sdk-reference/python/index.md and registered under the empty key.
C3_Original ==
    \A i \in DocumentWrites :
        events[i].src = <<INIT \o PY>> =>
            /\ events[i].doc = <<SDK_REFERENCE, PYTHON, INDEX_MD>>
            /\ events[i].key = <<>>

\* C3 (amended): the root __init__ is written to
\* sdk-reference/python/index.md and registered under the one-segment key
\* ("index",), with the value "index.md".
C3_RootIndex ==
    \A i \in DocumentWrites :
        events[i].src = <<INIT \o PY>> =>
            /\ events[i].doc = <<SDK_REFERENCE, PYTHON, INDEX_MD>>
            /\ events[i].key = <<INDEX>>
            /\ events[i].value = INDEX_MD

\* C3 witness: the root __init__ was generated.
C3_Witness ==
    \E i \in DocumentWrites : events[i].src = <<INIT \o PY>>

\* C4 (as stated): the manifest holds exactly one entry per retained module,
\* each mapped to that module's document; no entry is lost or replaced.
C4_Original ==
    pc = "done" =>
        /\ DOMAIN summary.entries = {NavKey(f) : f \in Retained}
        /\ \A f \in Retained : summary.entries[NavKey(f)] = AsPosix(DocPath(f))

\* C5 (as stated): two retained modules are never written to the same
\* document, so there are as many documents as retained modules.
C5_Original ==
    pc = "done" =>
        /\ \A f, g \in Retained : f # g => FullDocPath(f) # FullDocPath(g)
        /\ Cardinality(DOMAIN docs) = Cardinality(Retained)

\* C6: a module whose relative document path is in MANUAL_OVERRIDES gets no
\* document, no navigation entry and no edit path, and no document is ever
\* written at an overridden path.
C6_OverriddenNeverGenerated ==
    /\ \A f \in tree : RelativeDoc(f) \in overrides =>
          /\ \A i \in 1..Len(events) : events[i].src # f
          /\ FullDocPath(f) \notin DOMAIN docs
          /\ FullDocPath(f) \notin DOMAIN editPaths
    /\ \A d \in DOMAIN docs :
          AsPosix(SubSeq(d, Len(OutputRoot) + 1, Len(d))) \notin overrides

\* C6 witness: a finished run that met an overridden module that passes the
\* skip test, and generated another module.
C6_Witness ==
    /\ pc = "done"
    /\ \E f \in tree : ~Excluded(f) /\ RelativeDoc(f) \in overrides
    /\ DocumentWrites # {}

\* C7: a document has a breadcrumb line exactly when its navigation key has
\* more than one segment; the line is then one link per segment but the
\* last, in order, followed by the last segment in bold.
C7_Breadcrumb ==
    \A i \in DocumentWrites :
        LET key == events[i].key
            bc  == events[i].content.breadcrumb
        IN  /\ (bc # <<>>) <=> (Len(key) > 1)
            /\ bc # <<>> =>
                 /\ Len(bc) = Len(key)
                 /\ Cardinality({j \in 1..Len(bc) : bc[j].kind = "link"}) = Len(key) - 1
                 /\ \A j \in 1..(Len(key) - 1) :
                       bc[j].kind = "link" /\ bc[j].text = key[j]
                 /\ bc[Len(key)].kind = "bold"
                 /\ bc[Len(key)].text = key[Len(key)]

\* C7 witness: a finished run that wrote a document with a one-segment key
\* and a document with a key of three segments.
C7_Witness ==
    /\ pc = "done"
    /\ \E i, j \in DocumentWrites :
          Len(events[i].key) = 1 /\ Len(events[j].key) = 3

\* C8: get_module_title returns a non-empty title for every key: the
\* title-cased package name for the empty key, the table's title for a last
\* segment in the table, and otherwise the last segment with underscores
\* turned into spaces and every word capitalised.
C8_TitleTotal ==
    tresult.returned =>
        LET t == tresult.value
            parts == targs.parts
        IN  /\ t # <<>>
            /\ parts = <<>> => t = <<"G", "r", "i", "d", "d", "y">>
            /\ parts # <<>> /\ Last(parts) \in DOMAIN title_map =>
                  t = title_map[Last(parts)]
            /\ parts # <<>> /\ Last(parts) \notin DOMAIN title_map =>
                  /\ Len(t) = Len(Last(parts))
                  /\ \A i \in 1..Len(t) :
                        /\ Last(parts)[i] = "_" => t[i] = " "
                        /\ Last(parts)[i] # "_" =>
                              ToLower(t[i]) = ToLower(Last(parts)[i])
                        /\ IsCased(t[i]) =>
                              (IsUpper(t[i]) <=> (i = 1 \/ ~IsCased(t[i - 1])))

\* C8 witness: the call returned for a key whose last segment is not in the
\* table and has an underscore between two words.
C8_Witness ==
    /\ tresult.returned
    /\ targs.parts # <<>>
    /\ Last(targs.parts) \notin DOMAIN title_map
    /\ \E i \in 2..(Len(Last(targs.parts)) - 1) : Last(targs.parts)[i] = "_"

\* C9 (as stated): the i-th link of a breadcrumb, followed from the directory
\* of the document, leads to the index document of the package named by the
\* first i segments of the key (i counted from 1), for modules and packages.
C9_Original ==
    \A i \in DocumentWrites :
        LET key == events[i].key
            bc  == events[i].content.breadcrumb
        IN  \A j \in 1..Len(bc) :
                bc[j].kind = "link" =>
                    LinkTarget(events[i].doc, bc[j].href)
                        = OutputRoot \o SubSeq(key, 1, j) \o <<INDEX_MD>>

\* C10: SUMMARY.md is written at most once and nothing is written after it;
\* the documents are written in sorted path order; when the run is done
\* SUMMARY.md has been written once, last, after the document and the
\* navigation entry of every retained module.
C10_SummaryOnceAndLast ==
    /\ Cardinality(SummaryWrites) <= 1
    /\ \A i \in SummaryWrites : i = Len(events)
    /\ \A i, j \in DocumentWrites :
          i < j => PathLess(events[i].src, events[j].src)
    /\ summary.written <=> SummaryWrites # {}
    /\ pc = "done" =>
          /\ Cardinality(SummaryWrites) = 1
          /\ \A f \in Retained :
                \E i \in DocumentWrites :
                    /\ events[i].src = f
                    /\ i < Len(events)
                    /\ events[i].key \in DOMAIN summary.entries

\* C10 witness: a finished run that wrote two documents and the manifest.
C10_Witness ==
    /\ pc = "done"
    /\ Cardinality(DocumentWrites) = 2
    /\ summary.written

====
